---- MODULE Spec2Model ----
(***************************************************************************)
(* The donor dashboard (DonorHomeScreen): its local state, the effects     *)
(* that issue requests (mount effect, polling effect with its 1-second     *)
(* interval, focus effects) and the continuation of every loader, which    *)
(* runs when the response of a request it issued arrives.                  *)
(*                                                                         *)
(* A request in flight is a record [kind, seq, origin, user]; seq is the   *)
(* order of issue.  The network answers the requests in flight in any      *)
(* order, each with any response of the kind's response set.               *)
(*                                                                         *)
(* A state variable holds the value its setter was last called with.  No   *)
(* loader checks whether the screen is still mounted, so a continuation    *)
(* that runs after the unmount calls its setter like any other.            *)
(***************************************************************************)
EXTENDS Integers, Sequences, FiniteSets, TLC

\* ------------------------------------------------------------------ bounds
MaxEvents == 3       \* timer ticks, focus events and responses after the mount
MaxButtons == 2      \* actions handed to an alert
MaxPresses == 2      \* presses and close requests on an alert

\* ------------------------------------------------------------------ values
Null == "null"                  \* JavaScript null / undefined of a string field
NullNum == <<>>                 \* null of a number field; a number n is <<n>>

NoUser == [present |-> FALSE, id |-> ""]
UserNoId == [present |-> TRUE, id |-> ""]
UserA == [present |-> TRUE, id |-> "A"]
UserB == [present |-> TRUE, id |-> "B"]
UserValues == {NoUser, UserNoId, UserA}

\* a || b of JavaScript on strings: the first operand unless it is falsy
OrElse(a, b) == IF a = Null \/ a = "" THEN b ELSE a

\* String.prototype.toLowerCase on the status strings a server sends
toLowerCase(s) ==
  CASE s = "APPROVED" -> "approved"
    [] s = "Pending" -> "pending"
    [] s = "Rejected" -> "rejected"
    [] s = "Suspended" -> "suspended"
    [] OTHER -> s

\* --------------------------------------------------------------- responses
\* profileAPI.getDonorProfile: a rejection, success:false, success without a
\* profile, and profiles spelled with either field alias and letter case
NoProfile == [approval_status |-> Null, approvalStatus |-> Null,
              admin_remarks |-> Null, adminRemarks |-> Null]
ProfileValues ==
  { [NoProfile EXCEPT !.approval_status = "APPROVED"],
    [NoProfile EXCEPT !.approvalStatus = "Pending"],
    [NoProfile EXCEPT !.approvalStatus = "Rejected", !.adminRemarks = "Blurry ID"],
    [NoProfile EXCEPT !.approval_status = "Suspended"],
    NoProfile }
ProfileResponses ==
  { [throws |-> TRUE, success |-> FALSE, hasProfile |-> FALSE, profile |-> NoProfile],
    [throws |-> FALSE, success |-> FALSE, hasProfile |-> FALSE, profile |-> NoProfile],
    [throws |-> FALSE, success |-> TRUE, hasProfile |-> FALSE, profile |-> NoProfile] }
  \cup { [throws |-> FALSE, success |-> TRUE, hasProfile |-> TRUE, profile |-> p] :
           p \in ProfileValues }

\* bloodRequestAPI.getDonorStats
StatsResponses ==
  { [throws |-> TRUE, donatedCount |-> 0],
    [throws |-> FALSE, donatedCount |-> 1],
    [throws |-> FALSE, donatedCount |-> 2] }

\* GET /api/donor/{id}/details
InitialDonorInfo ==
  [bloodType |-> Null, lastDonation |-> Null, nextEligible |-> Null,
   daysUntilEligible |-> NullNum, isEligible |-> FALSE]
DetailValues ==
  { [bloodGroup |-> "O+", lastDonation |-> "2024-01-01", nextEligible |-> "2024-04-01",
     daysUntilEligible |-> <<30>>, isEligible |-> FALSE],
    [bloodGroup |-> "A-", lastDonation |-> Null, nextEligible |-> Null,
     daysUntilEligible |-> NullNum, isEligible |-> TRUE],
    [bloodGroup |-> "B+", lastDonation |-> "2024-01-01", nextEligible |-> "2024-04-01",
     daysUntilEligible |-> <<0>>, isEligible |-> FALSE],
    [bloodGroup |-> "B+", lastDonation |-> "2024-01-01", nextEligible |-> "2024-04-01",
     daysUntilEligible |-> <<-3>>, isEligible |-> FALSE],
    [bloodGroup |-> "B+", lastDonation |-> "2024-01-01", nextEligible |-> Null,
     daysUntilEligible |-> <<5>>, isEligible |-> FALSE] }
NoDetail ==
  [bloodGroup |-> Null, lastDonation |-> Null, nextEligible |-> Null,
   daysUntilEligible |-> NullNum, isEligible |-> FALSE]
DetailsResponses ==
  { [throws |-> TRUE, success |-> FALSE, data |-> NoDetail],
    [throws |-> FALSE, success |-> FALSE, data |-> NoDetail] }
  \cup { [throws |-> FALSE, success |-> TRUE, data |-> d] : d \in DetailValues }

\* GET /api/donor/{id}/recent-donations?limit=5
Donation1 == [date |-> "2024-01-01", location |-> "City Hospital", units |-> 1]
DonationsResponses ==
  { [throws |-> TRUE, success |-> FALSE, donations |-> <<>>],
    [throws |-> FALSE, success |-> FALSE, donations |-> <<>>],
    [throws |-> FALSE, success |-> TRUE, donations |-> <<>>],
    [throws |-> FALSE, success |-> TRUE, donations |-> <<Donation1>>] }

\* bloodRequestAPI.getAvailableForDonor: requests may be missing
AvailableResponses ==
  { [throws |-> TRUE, hasRequests |-> FALSE, requests |-> <<>>],
    [throws |-> FALSE, hasRequests |-> FALSE, requests |-> <<>>],
    [throws |-> FALSE, hasRequests |-> TRUE, requests |-> <<"r1">>] }

\* getUnreadNotificationCount
UnreadResponses ==
  { [throws |-> TRUE, count |-> 0],
    [throws |-> FALSE, count |-> 3] }

\* ------------------------------------------------------------------- state
VARIABLES
  phase,                  \* "init" before mount, "mounted", "unmounted"
  user,                   \* useAuth().user
  intervals,              \* number of active setInterval timers
  availableRequestsCount, profileStatus, profileRemarks, donatedCount,
  donorInfo, recentDonations, loadingDonations, unreadCount,
  inflight,               \* requests awaiting their response
  nextSeq,                \* sequence number of the next request
  unhandled,              \* a rejection left a loader without being caught
  ticks,                  \* timer callbacks run so far
  events,                 \* ticks, focus events and responses so far
  hiSeq,                  \* per kind: highest seq whose response was applied
  last,                   \* the response delivered last, and its request
  reloadUser,             \* the user the reload focus callback closed over
  server,                 \* the version of the data the server holds
  alert                   \* a CustomAlert: its props, what it rendered, the
                          \* callbacks it invoked and the presses it got

stateVars == <<availableRequestsCount, profileStatus, profileRemarks, donatedCount,
               donorInfo, recentDonations, loadingDonations, unreadCount>>
vars == <<phase, user, intervals, availableRequestsCount, profileStatus,
          profileRemarks, donatedCount, donorInfo, recentDonations,
          loadingDonations, unreadCount, inflight, nextSeq, unhandled,
          ticks, events, hiSeq, last, reloadUser, server, alert>>

Kinds == {"profile", "stats", "details", "donations", "available", "unread"}

\* ------------------------------------------------------- issuing requests
\* user?.id is truthy
HasId(u) == u.present /\ u.id # ""

\* the early return of each loader: TRUE when the loader goes on to its request
Sends(kind, u) ==
  CASE kind = "profile" -> u.present          \* if (!user) return
    [] kind = "unread" -> HasId(u)            \* if (user?.id)
    [] OTHER -> HasId(u)                      \* if (!user?.id) return

\* the loaders each effect calls, in the order of the calls
MountEffectCalls == <<"profile", "stats", "details", "donations">>
PollingEffectCalls == <<"available">>
\* variant: the timer does not re-fetch the statistics
TimerCallsWithoutStats == <<"available", "details">>
TimerCallsWithProfile == <<"available", "stats", "details", "profile">>
TimerCalls == <<"available", "stats", "details">>
UnreadFocusCalls == <<"unread">>
ReloadFocusCalls == <<"available", "stats", "profile", "details", "donations">>

Sent(calls) == SelectSeq(calls, LAMBDA k : Sends(k, user))

\* the requests the loaders of calls send when their closure holds user u
Batch(calls, u) ==
  LET sent == SelectSeq(calls, LAMBDA k : Sends(k, u)) IN
    [i \in 1..Len(sent) |-> [kind |-> sent[i], user |-> u.id]]

\* the loaders behind batch run up to their await: the requests join inflight,
\* and loadRecentDonations sets its loading flag before it fetches
IssueBatch(batch, origin) ==
  /\ inflight' = inflight \cup
       { [kind |-> batch[i].kind, seq |-> nextSeq + i - 1, origin |-> origin,
          user |-> batch[i].user] : i \in 1..Len(batch) }
  /\ nextSeq' = nextSeq + Len(batch)
  /\ loadingDonations' =
       IF \E i \in 1..Len(batch) : batch[i].kind = "donations" THEN TRUE
       ELSE loadingDonations

\* every loader of calls runs up to its await: the requests join inflight, and
\* loadRecentDonations sets its loading flag before it fetches
Issue(calls, origin) ==
  LET sent == Sent(calls) IN
    /\ inflight' = inflight \cup
         { [kind |-> sent[i], seq |-> nextSeq + i - 1, origin |-> origin,
            user |-> user.id] : i \in 1..Len(sent) }
    /\ nextSeq' = nextSeq + Len(sent)
    /\ loadingDonations' =
         IF \E i \in 1..Len(sent) : sent[i] = "donations" THEN TRUE
         ELSE loadingDonations

\* ------------------------------------------------- continuations (values)
\* variant: a failed request puts the card back to loading
ProfileStatusAfterBackToLoading(resp) ==
  IF resp.throws THEN "loading"
  ELSE IF resp.success /\ resp.hasProfile
    THEN LET status == OrElse(resp.profile.approval_status, resp.profile.approvalStatus)
         IN  IF status = Null THEN "none"
             ELSE toLowerCase(status)
    ELSE "none"

\* variant: the catch block only logs
ProfileStatusAfterCatchLogs(resp) ==
  IF resp.throws THEN profileStatus
  ELSE IF resp.success /\ resp.hasProfile
    THEN LET status == OrElse(resp.profile.approval_status, resp.profile.approvalStatus)
         IN  IF status = Null THEN profileStatus
             ELSE toLowerCase(status)
    ELSE "none"

\* loadProfileStatus after its await: the status it sets
ProfileStatusAfter(resp) ==
  IF resp.throws THEN "none"
  ELSE IF resp.success /\ resp.hasProfile
    THEN LET status == OrElse(resp.profile.approval_status, resp.profile.approvalStatus)
         IN  IF status = Null THEN "none"      \* status.toLowerCase() throws
             ELSE toLowerCase(status)
    ELSE "none"

\* loadProfileStatus after its await: the remarks it sets
ProfileRemarksAfter(resp) ==
  IF ~resp.throws /\ resp.success /\ resp.hasProfile
     /\ OrElse(resp.profile.approval_status, resp.profile.approvalStatus) # Null
    THEN OrElse(OrElse(resp.profile.admin_remarks, resp.profile.adminRemarks), "")
    ELSE profileRemarks

\* variant: a response older than one already applied is dropped
DonatedCountAfterNewestWins(r, resp) ==
  IF resp.throws \/ r.seq < hiSeq["stats"] THEN donatedCount ELSE resp.donatedCount

\* loadDonorStats after its await
DonatedCountAfter(r, resp) ==
  IF resp.throws THEN donatedCount ELSE resp.donatedCount

\* variant: a failed refresh resets the detail
DonorInfoAfterReset(r, resp) ==
  IF ~resp.throws /\ resp.success
    THEN [bloodType |-> resp.data.bloodGroup,
          lastDonation |-> resp.data.lastDonation,
          nextEligible |-> resp.data.nextEligible,
          daysUntilEligible |-> resp.data.daysUntilEligible,
          isEligible |-> resp.data.isEligible]
    ELSE InitialDonorInfo

\* variant: a null field of the response keeps the field's previous value
DonorInfoAfterMerge(r, resp) ==
  IF ~resp.throws /\ resp.success
    THEN [bloodType |-> OrElse(resp.data.bloodGroup, donorInfo.bloodType),
          lastDonation |-> OrElse(resp.data.lastDonation, donorInfo.lastDonation),
          nextEligible |-> OrElse(resp.data.nextEligible, donorInfo.nextEligible),
          daysUntilEligible |-> resp.data.daysUntilEligible,
          isEligible |-> resp.data.isEligible]
    ELSE donorInfo

\* variant: the detail is stored only when no stats request is outstanding
DonorInfoAfterWithStats(r, resp) ==
  IF ~resp.throws /\ resp.success /\ ~(\E q \in inflight : q.kind = "stats")
    THEN [bloodType |-> resp.data.bloodGroup,
          lastDonation |-> resp.data.lastDonation,
          nextEligible |-> resp.data.nextEligible,
          daysUntilEligible |-> resp.data.daysUntilEligible,
          isEligible |-> resp.data.isEligible]
    ELSE donorInfo

\* loadDonorDetails after its await
DonorInfoAfter(r, resp) ==
  IF ~resp.throws /\ resp.success
    THEN [bloodType |-> resp.data.bloodGroup,
          lastDonation |-> resp.data.lastDonation,
          nextEligible |-> resp.data.nextEligible,
          daysUntilEligible |-> resp.data.daysUntilEligible,
          isEligible |-> resp.data.isEligible]
    ELSE donorInfo

\* loadRecentDonations after its await
RecentDonationsAfter(resp) ==
  IF ~resp.throws /\ resp.success THEN resp.donations ELSE recentDonations

\* variant: the catch block only logs
AvailableCountAfterCatchLogs(r, resp) ==
  IF resp.throws THEN availableRequestsCount
  ELSE IF resp.hasRequests THEN Len(resp.requests) ELSE 0

\* updateAvailableCount after its await: response.requests?.length || 0
AvailableCountAfter(r, resp) ==
  IF resp.throws THEN 0
  ELSE IF resp.hasRequests THEN Len(resp.requests) ELSE 0

\* the response reached the loader's state update
Applied(kind, resp) ==
  CASE kind \in {"details", "donations"} -> ~resp.throws /\ resp.success
    [] kind = "profile" ->
         /\ ~resp.throws /\ resp.success /\ resp.hasProfile
         /\ OrElse(resp.profile.approval_status, resp.profile.approvalStatus) # Null
    [] OTHER -> ~resp.throws

\* ------------------------------------------------------------------ render
\* the profile status card: the branch of the conditional chain that renders
ProfileStatusCard(status) ==
  CASE status = "loading" -> "loading"
    [] status = "none" -> "incomplete"
    [] status = "pending" -> "pending"
    [] status = "rejected" -> "rejected"
    [] status = "approved" -> "approved"
    [] OTHER -> "nothing"

\* a string operand of && is truthy
Truthy(str) == str # Null /\ str # ""

\* variant: the day count is compared with >= 0
CountdownBadgeFromZero(info) ==
  /\ Truthy(info.bloodType)
  /\ ~info.isEligible
  /\ info.daysUntilEligible # NullNum
  /\ info.daysUntilEligible[1] >= 0
  /\ Truthy(info.nextEligible)

\* the eligibility card's footer with the 'N days remaining' badge renders
CountdownBadge(info) ==
  /\ Truthy(info.bloodType)                  \* the card itself renders
  /\ ~info.isEligible
  /\ info.daysUntilEligible # NullNum
  /\ info.daysUntilEligible[1] > 0
  /\ Truthy(info.nextEligible)

\* variant: the empty-state message is not the last branch of the chain
RecentDonationsSectionAlwaysEmptyText(loading, donations) ==
  [spinner |-> loading,
   rows |-> IF ~loading /\ Len(donations) > 0 THEN Len(donations) ELSE 0,
   empty |-> ~loading]

\* the recent-donations section: spinner, one row per record, or empty text
RecentDonationsSection(loading, donations) ==
  [spinner |-> loading,
   rows |-> IF ~loading /\ Len(donations) > 0 THEN Len(donations) ELSE 0,
   empty |-> ~loading /\ ~(Len(donations) > 0)]

\* ------------------------------------------------------------ CustomAlert
ButtonValues ==
  [hasOnPress : BOOLEAN, style : {"default", "cancel", "destructive"}]
ButtonLists == UNION { [1..n -> ButtonValues] : n \in 0..MaxButtons }

\* the props of a CustomAlert: buttons may be left out, and so may onDismiss
AlertProps ==
  [hasButtons : {TRUE}, buttons : ButtonLists, hasOnDismiss : BOOLEAN]
  \cup [hasButtons : {FALSE}, buttons : {<<>>}, hasOnDismiss : BOOLEAN]

\* the default value of the buttons prop
DefaultButtons == <<[hasOnPress |-> FALSE, style |-> "default"]>>

\* variant: the default also replaces an empty list
RenderedButtonsDefaultForEmpty(props) ==
  IF props.hasButtons /\ Len(props.buttons) > 0 THEN props.buttons ELSE DefaultButtons

\* buttons.map(...): the buttons the dialog renders, in order
RenderedButtons(props) ==
  IF props.hasButtons THEN props.buttons ELSE DefaultButtons

\* variant: the dismissal callback runs before the action's own callback
handleButtonPressDismissFirst(props, button, i, n) ==
  (IF props.hasOnDismiss THEN <<[cb |-> "onDismiss", button |-> 0, press |-> n]>> ELSE <<>>)
  \o (IF button.hasOnPress THEN <<[cb |-> "onPress", button |-> i, press |-> n]>> ELSE <<>>)

\* handleButtonPress(button): the callbacks press n of button i invokes, in order
handleButtonPress(props, button, i, n) ==
  (IF button.hasOnPress THEN <<[cb |-> "onPress", button |-> i, press |-> n]>> ELSE <<>>)
  \o (IF props.hasOnDismiss THEN <<[cb |-> "onDismiss", button |-> 0, press |-> n]>> ELSE <<>>)

NoAlert ==
  [props |-> [hasButtons |-> FALSE, buttons |-> <<>>, hasOnDismiss |-> FALSE],
   shown |-> FALSE, rendered |-> <<>>, calls |-> <<>>, pressed |-> <<>>]

\* ------------------------------------------------------------------- Init
InitDashboard ==
  /\ phase = "init"
  /\ user \in UserValues
  /\ intervals = 0
  /\ availableRequestsCount = 0
  /\ profileStatus = "loading"
  /\ profileRemarks = ""
  /\ donatedCount = 0
  /\ donorInfo = InitialDonorInfo
  /\ recentDonations = <<>>
  /\ loadingDonations = TRUE
  /\ unreadCount = 0
  /\ inflight = {}
  /\ nextSeq = 1
  /\ unhandled = FALSE
  /\ ticks = 0
  /\ events = 0
  /\ hiSeq = [k \in Kinds |-> 0]
  /\ last = [op |-> "none"]
  /\ reloadUser = user
  /\ server = "v1"

Init ==
  /\ InitDashboard
  /\ alert = NoAlert

\* ---------------------------------------------------------------- effects
\* variant: the polling effect returns no cleanup
IntervalsAfterNoCleanup == intervals

\* clearInterval(interval), the cleanup of the polling effect
IntervalsAfterCleanup == intervals - 1

\* first render commits: the mount effect, then the polling effect, run
Mount ==
  /\ phase = "init"
  /\ phase' = "mounted"
  /\ Issue(MountEffectCalls \o PollingEffectCalls, "mount")
  /\ intervals' = intervals + 1
  /\ UNCHANGED <<user, last, availableRequestsCount, profileStatus, profileRemarks,
                 donatedCount, donorInfo, recentDonations, unreadCount, unhandled,
                 ticks, events, hiSeq, reloadUser, server, alert>>

\* the callback of setInterval fires
TimerTick ==
  /\ intervals > 0
  /\ events < MaxEvents
  /\ events' = events + 1
  /\ ticks' = ticks + 1
  /\ Issue(TimerCalls, "timer")
  /\ UNCHANGED <<phase, user, intervals, last, availableRequestsCount, profileStatus,
                 profileRemarks, donatedCount, donorInfo, recentDonations,
                 unreadCount, unhandled, hiSeq, reloadUser, server, alert>>

\* the screen comes into focus: both useFocusEffect callbacks run
Focus ==
  /\ phase = "mounted"
  /\ events < MaxEvents
  /\ events' = events + 1
  /\ IssueBatch(Batch(UnreadFocusCalls, user) \o Batch(ReloadFocusCalls, reloadUser),
                "focus")
  /\ UNCHANGED <<phase, user, intervals, last, availableRequestsCount, profileStatus,
                 profileRemarks, donatedCount, donorInfo, recentDonations,
                 unreadCount, unhandled, ticks, hiSeq, reloadUser, server, alert>>

\* the screen unmounts: the cleanup of the polling effect runs
Unmount ==
  /\ phase = "mounted"
  /\ phase' = "unmounted"
  /\ intervals' = IntervalsAfterCleanup
  /\ UNCHANGED <<user, last, availableRequestsCount, profileStatus, profileRemarks,
                 donatedCount, donorInfo, recentDonations, loadingDonations,
                 unreadCount, inflight, nextSeq, unhandled, ticks, events,
                 hiSeq, reloadUser, server, alert>>

\* ----------------------------------------------------------- continuations
\* bookkeeping common to every continuation: request r got response resp
Arrive(r, resp) ==
  /\ events < MaxEvents
  /\ events' = events + 1
  /\ inflight' = inflight \ {r}
  /\ hiSeq' = IF Applied(r.kind, resp) /\ r.seq > hiSeq[r.kind]
                THEN [hiSeq EXCEPT ![r.kind] = r.seq] ELSE hiSeq
  /\ last' = [op |-> "resolve", req |-> r, resp |-> resp]
  /\ UNCHANGED <<phase, user, intervals, nextSeq, ticks, reloadUser, server,
                 alert>>

loadUnreadCount ==
  \E r \in inflight : \E resp \in UnreadResponses :
    /\ r.kind = "unread"
    /\ Arrive(r, resp)
    /\ unreadCount' = IF resp.throws THEN unreadCount ELSE resp.count
    /\ unhandled' = (unhandled \/ resp.throws)      \* no try around the await
    /\ UNCHANGED <<availableRequestsCount, profileStatus, profileRemarks,
                   donatedCount, donorInfo, recentDonations, loadingDonations>>

loadProfileStatus ==
  \E r \in inflight : \E resp \in ProfileResponses :
    /\ r.kind = "profile"
    /\ Arrive(r, resp)
    /\ profileStatus' = ProfileStatusAfter(resp)
    /\ profileRemarks' = ProfileRemarksAfter(resp)
    /\ UNCHANGED <<availableRequestsCount, donatedCount, donorInfo,
                   recentDonations, loadingDonations, unreadCount, unhandled>>

loadDonorStats ==
  \E r \in inflight : \E resp \in StatsResponses :
    /\ r.kind = "stats"
    /\ Arrive(r, resp)
    /\ donatedCount' = DonatedCountAfter(r, resp)
    /\ UNCHANGED <<availableRequestsCount, profileStatus, profileRemarks, donorInfo,
                   recentDonations, loadingDonations, unreadCount, unhandled>>

loadDonorDetails ==
  \E r \in inflight : \E resp \in DetailsResponses :
    /\ r.kind = "details"
    /\ Arrive(r, resp)
    /\ donorInfo' = DonorInfoAfter(r, resp)
    /\ UNCHANGED <<availableRequestsCount, profileStatus, profileRemarks,
                   donatedCount, recentDonations, loadingDonations, unreadCount,
                   unhandled>>

loadRecentDonations ==
  \E r \in inflight : \E resp \in DonationsResponses :
    /\ r.kind = "donations"
    /\ Arrive(r, resp)
    /\ recentDonations' = RecentDonationsAfter(resp)
    /\ loadingDonations' = FALSE                     \* finally
    /\ UNCHANGED <<availableRequestsCount, profileStatus, profileRemarks,
                   donatedCount, donorInfo, unreadCount, unhandled>>

updateAvailableCount ==
  \E r \in inflight : \E resp \in AvailableResponses :
    /\ r.kind = "available"
    /\ Arrive(r, resp)
    /\ availableRequestsCount' = AvailableCountAfter(r, resp)
    /\ UNCHANGED <<profileStatus, profileRemarks, donatedCount, donorInfo,
                   recentDonations, loadingDonations, unreadCount, unhandled>>

Next ==
  \/ Mount
  \/ TimerTick
  \/ Focus
  \/ Unmount
  \/ loadUnreadCount
  \/ loadProfileStatus
  \/ loadDonorStats
  \/ loadDonorDetails
  \/ loadRecentDonations
  \/ updateAvailableCount

Spec == Init /\ [][Next]_vars

\* ------------------------------------------------ the logged-in user changes
\* useAuth() hands the screen another user while it is mounted.  The effects
\* whose dependencies changed run again, in the order of their declaration:
\* the mount effect, the unread focus effect (deps [user], when the screen is
\* focused), the polling effect after its cleanup, and the reload focus
\* effect (deps [user?.id], when the screen is focused and the id changed).
\* A change of user counts double against the budget of events.
ChangeUser ==
  \E newUser \in UserValues \cup {UserB} : \E focused \in BOOLEAN :
    LET idChanged == newUser.id # user.id IN
    /\ phase = "mounted"
    /\ newUser # user
    /\ events + 1 < MaxEvents
    /\ events' = events + 2
    /\ user' = newUser
    /\ reloadUser' = IF idChanged THEN newUser ELSE reloadUser
    /\ intervals' = IntervalsAfterCleanup + 1
    /\ IssueBatch(Batch(MountEffectCalls, newUser)
                  \o (IF focused THEN Batch(UnreadFocusCalls, newUser) ELSE <<>>)
                  \o Batch(PollingEffectCalls, newUser)
                  \o (IF focused /\ idChanged
                        THEN Batch(ReloadFocusCalls, newUser) ELSE <<>>),
                  "user")
    /\ UNCHANGED <<phase, last, availableRequestsCount, profileStatus,
                   profileRemarks, donatedCount, donorInfo, recentDonations,
                   unreadCount, unhandled, ticks, hiSeq, server, alert>>

NextUser ==
  \/ Next
  \/ ChangeUser

SpecUser == Init /\ [][NextUser]_vars

\* ------------------------------------ the dashboard against a changing server
\* The screen stays mounted with user A, the timer keeps firing, and the server
\* answers every request successfully with the data it held when the request
\* reached it: its first data ("v1") or, after one change, its second ("v2").
Versions == {"v1", "v2"}

\* the successful answer of each endpoint at each version of the server's data
ServerResponse(kind, v) ==
  CASE kind = "profile" ->
         [throws |-> FALSE, success |-> TRUE, hasProfile |-> TRUE,
          profile |-> IF v = "v1" THEN [NoProfile EXCEPT !.approvalStatus = "Pending"]
                      ELSE [NoProfile EXCEPT !.approval_status = "APPROVED"]]
    [] kind = "stats" ->
         [throws |-> FALSE, donatedCount |-> IF v = "v1" THEN 1 ELSE 2]
    [] kind = "details" ->
         [throws |-> FALSE, success |-> TRUE,
          data |-> IF v = "v1"
                     THEN [bloodGroup |-> "A-", lastDonation |-> Null,
                           nextEligible |-> Null, daysUntilEligible |-> NullNum,
                           isEligible |-> TRUE]
                     ELSE [bloodGroup |-> "O+", lastDonation |-> "2024-01-01",
                           nextEligible |-> "2024-04-01",
                           daysUntilEligible |-> <<30>>, isEligible |-> FALSE]]
    [] kind = "donations" ->
         [throws |-> FALSE, success |-> TRUE,
          donations |-> IF v = "v1" THEN <<>> ELSE <<Donation1>>]
    [] kind = "available" ->
         [throws |-> FALSE, hasRequests |-> TRUE, requests |-> <<"r1">>]
    [] OTHER ->
         [throws |-> FALSE, count |-> 3]

\* a request on its way back with the answer of version ver; outstanding
\* requests of one kind that carry the same answer are kept as one, and the
\* answers of the two endpoints outside the four pieces do not change
LiveRequest(kind, ver) ==
  [kind |-> kind, seq |-> 0, origin |-> "live", user |-> UserA.id,
   ver |-> IF kind \in {"available", "unread"} THEN "v1" ELSE ver]

\* the loaders behind batch run up to their await and the server answers
LiveIssue(batch) ==
  /\ inflight' = inflight \cup
       { LiveRequest(batch[i].kind, server) : i \in 1..Len(batch) }
  /\ loadingDonations' =
       IF \E i \in 1..Len(batch) : batch[i].kind = "donations" THEN TRUE
       ELSE loadingDonations

LiveRequests == { LiveRequest(k, v) : k \in Kinds, v \in Versions }

InitLive ==
  /\ InitDashboard
  /\ user = UserA
  /\ alert = NoAlert

LiveMount ==
  /\ phase = "init"
  /\ phase' = "mounted"
  /\ LiveIssue(Batch(MountEffectCalls \o PollingEffectCalls, user))
  /\ intervals' = intervals + 1
  /\ UNCHANGED <<user, last, availableRequestsCount, profileStatus, profileRemarks,
                 donatedCount, donorInfo, recentDonations, unreadCount, unhandled,
                 nextSeq, ticks, events, hiSeq, reloadUser, server, alert>>

\* the callback of setInterval fires
LiveTick ==
  /\ intervals > 0
  /\ LiveIssue(Batch(TimerCalls, user))
  /\ UNCHANGED <<phase, user, intervals, last, availableRequestsCount, profileStatus,
                 profileRemarks, donatedCount, donorInfo, recentDonations,
                 unreadCount, unhandled, nextSeq, ticks, events, hiSeq,
                 reloadUser, server, alert>>

\* the screen comes into focus: both useFocusEffect callbacks run
LiveFocus ==
  /\ phase = "mounted"
  /\ LiveIssue(Batch(UnreadFocusCalls, user) \o Batch(ReloadFocusCalls, reloadUser))
  /\ UNCHANGED <<phase, user, intervals, last, availableRequestsCount, profileStatus,
                 profileRemarks, donatedCount, donorInfo, recentDonations,
                 unreadCount, unhandled, nextSeq, ticks, events, hiSeq,
                 reloadUser, server, alert>>

\* the data on the server changes
ServerChange ==
  /\ phase = "mounted"
  /\ server = "v1"
  /\ server' = "v2"
  /\ UNCHANGED <<phase, user, intervals, availableRequestsCount, profileStatus,
                 profileRemarks, donatedCount, donorInfo, recentDonations,
                 loadingDonations, unreadCount, inflight, nextSeq, unhandled,
                 ticks, events, hiSeq, last, reloadUser, alert>>

\* the loader that sent r resumes after its await with the server's answer
LiveArrive(r) ==
  LET resp == ServerResponse(r.kind, r.ver) IN
    /\ r \in inflight
    /\ inflight' = inflight \ {r}
    /\ availableRequestsCount' =
         IF r.kind = "available" THEN AvailableCountAfter(r, resp)
         ELSE availableRequestsCount
    /\ profileStatus' =
         IF r.kind = "profile" THEN ProfileStatusAfter(resp) ELSE profileStatus
    /\ profileRemarks' =
         IF r.kind = "profile" THEN ProfileRemarksAfter(resp) ELSE profileRemarks
    /\ donatedCount' =
         IF r.kind = "stats" THEN DonatedCountAfter(r, resp) ELSE donatedCount
    /\ donorInfo' =
         IF r.kind = "details" THEN DonorInfoAfter(r, resp) ELSE donorInfo
    /\ recentDonations' =
         IF r.kind = "donations" THEN RecentDonationsAfter(resp) ELSE recentDonations
    /\ loadingDonations' =
         IF r.kind = "donations" THEN FALSE ELSE loadingDonations
    /\ unreadCount' = IF r.kind = "unread" THEN resp.count ELSE unreadCount
    /\ UNCHANGED <<phase, user, intervals, nextSeq, unhandled, ticks, events,
                   hiSeq, last, reloadUser, server, alert>>

NextLive ==
  \/ LiveMount
  \/ LiveTick
  \/ LiveFocus
  \/ ServerChange
  \/ \E r \in inflight : LiveArrive(r)

\* the timer is fair and every request is answered; mount, focus and the
\* server's change are up to the user and the server
SpecLive ==
  /\ InitLive
  /\ [][NextLive]_vars
  /\ WF_vars(LiveMount)
  /\ WF_vars(LiveTick)
  /\ \A r \in LiveRequests : WF_vars(LiveArrive(r))

\* ------------------------------------------------- CustomAlert on its own
dashboardVars ==
  <<phase, user, intervals, availableRequestsCount, profileStatus, profileRemarks,
    donatedCount, donorInfo, recentDonations, loadingDonations, unreadCount,
    inflight, nextSeq, unhandled, ticks, events, hiSeq, last, reloadUser,
    server>>

InitAlert ==
  /\ InitDashboard
  /\ user = NoUser
  /\ \E props \in AlertProps : alert = [NoAlert EXCEPT !.props = props]

\* the dialog renders with visible = true
RenderAlert ==
  /\ ~alert.shown
  /\ alert' = [alert EXCEPT !.shown = TRUE, !.rendered = RenderedButtons(alert.props)]
  /\ UNCHANGED dashboardVars

\* a rendered button is pressed: onPress={() => handleButtonPress(button)}
PressButton ==
  \E i \in 1..Len(alert.rendered) :
    /\ alert.shown
    /\ Len(alert.pressed) < MaxPresses
    /\ alert' = [alert EXCEPT
         !.pressed = Append(@, i),
         !.calls = @ \o handleButtonPress(alert.props, alert.rendered[i], i,
                                          Len(alert.pressed) + 1)]
    /\ UNCHANGED dashboardVars

\* the Modal asks to close: onRequestClose={onDismiss}
RequestClose ==
  /\ alert.shown
  /\ alert.props.hasOnDismiss
  /\ Len(alert.pressed) < MaxPresses
  /\ alert' = [alert EXCEPT
       !.pressed = Append(@, 0),
       !.calls = Append(@, [cb |-> "onDismiss", button |-> 0,
                            press |-> Len(alert.pressed) + 1])]
  /\ UNCHANGED dashboardVars

NextAlert ==
  \/ RenderAlert
  \/ PressButton
  \/ RequestClose

SpecAlert == InitAlert /\ [][NextAlert]_vars

\* ------------------------------------------------------------------ claims
Resolved(kind) == last.op = "resolve" /\ last.req.kind = kind
ResolvedNow(kind) == last' # last /\ last'.req.kind = kind

\* C1: once the dashboard has unmounted, no state variable changes: the
\* response of a request still in flight is not applied.
C1_NoChangeAfterUnmount ==
  [][phase = "unmounted" => UNCHANGED stateVars]_vars

\* C2: once the dashboard has unmounted, no timer tick occurs and no new
\* request is issued.
C2_TimerCancelledOnUnmount ==
  [][phase = "unmounted" => (ticks' = ticks /\ inflight' \subseteq inflight)]_vars

C2_Witness ==
  phase = "unmounted" /\ ticks > 0 /\ events < MaxEvents /\ inflight # {}

\* C3: after a successful response for stats, detail or available-request
\* count, local state equals the payload of that response (the one that
\* resolved last), whatever the order of issue.
C3_LastResolvedWins ==
  /\ (Resolved("stats") /\ Applied("stats", last.resp))
       => donatedCount = last.resp.donatedCount
  /\ (Resolved("details") /\ Applied("details", last.resp))
       => donorInfo = [bloodType |-> last.resp.data.bloodGroup,
                       lastDonation |-> last.resp.data.lastDonation,
                       nextEligible |-> last.resp.data.nextEligible,
                       daysUntilEligible |-> last.resp.data.daysUntilEligible,
                       isEligible |-> last.resp.data.isEligible]
  /\ (Resolved("available") /\ Applied("available", last.resp))
       => availableRequestsCount =
            (IF last.resp.hasRequests THEN Len(last.resp.requests) ELSE 0)

\* an earlier-issued stats request resolved after a later-issued one and
\* its payload is what local state shows
C3_Witness ==
  /\ Resolved("stats") /\ Applied("stats", last.resp)
  /\ last.req.seq < hiSeq["stats"]
  /\ donatedCount = last.resp.donatedCount

\* C4: a profile response with success=false, or without a profile, a thrown
\* error, and a profile whose status cannot be read all leave profileStatus
\* equal to 'none'.
C4_ProfileFailuresConverge ==
  (Resolved("profile") /\ ~Applied("profile", last.resp)) => profileStatus = "none"

\* a profile had been applied (its remarks are still there) and a later
\* response failed while its status was read
C4_Witness ==
  /\ Resolved("profile") /\ ~last.resp.throws /\ last.resp.hasProfile
  /\ ~Applied("profile", last.resp)
  /\ profileRemarks = "Blurry ID"
  /\ profileStatus = "none"

\* C5: a failed stats refresh and a failed detail refresh (thrown error or
\* success=false) change no state variable.
C5_FailedRefreshKeepsState ==
  [][((ResolvedNow("stats") \/ ResolvedNow("details"))
        /\ ~Applied(last'.req.kind, last'.resp))
      => UNCHANGED stateVars]_vars

\* a detail refresh failed after an earlier one had stored a detail
C5_Witness ==
  /\ Resolved("details") /\ ~Applied("details", last.resp)
  /\ donorInfo # InitialDonorInfo

\* C6: no rejected request leaves any of the six refresh operations as an
\* unhandled error.
C6_NoUnhandledRejection == ~unhandled

\* C7: after loadRecentDonations fails, recentDonations is the empty list.
C7_FailedDonationsEmpty ==
  (Resolved("donations") /\ ~Applied("donations", last.resp)) => recentDonations = <<>>

\* C8: after updateAvailableCount resolves, availableRequestsCount is the
\* number of requests of the response, or 0 without a requests list or on a
\* failure; it is always a non-negative integer.
C8_AvailableCount ==
  /\ availableRequestsCount \in Nat
  /\ Resolved("available") =>
       availableRequestsCount =
         (IF ~last.resp.throws /\ last.resp.hasRequests
            THEN Len(last.resp.requests) ELSE 0)

\* a failed count request resolved after a count had been applied
C8_Witness ==
  /\ Resolved("available") /\ last.resp.throws
  /\ hiSeq["available"] > 0
  /\ availableRequestsCount = 0

\* C9: a timer tick issues requests only for the available-request count,
\* stats and detail, and neither the tick nor a response to a request it
\* issued changes profileStatus, profileRemarks, recentDonations,
\* loadingDonations or unreadCount.
C9_TimerFrame ==
  [][(ticks' # ticks \/ (last' # last /\ last'.req.origin = "timer"))
      => /\ UNCHANGED <<profileStatus, profileRemarks, recentDonations,
                        loadingDonations, unreadCount>>
         /\ \A r \in inflight' \ inflight :
              r.kind \in {"available", "stats", "details"}]_vars

\* a response to a request of the timer has been applied
C9_Witness ==
  /\ last.op = "resolve" /\ last.req.origin = "timer"
  /\ Applied(last.req.kind, last.resp)

\* C10: for every profileStatus other than 'approved', 'pending', 'rejected'
\* and 'none', the profile status card renders the loading branch.
C10_OtherStatusRendersLoading ==
  profileStatus \notin {"approved", "pending", "rejected", "none"}
    => ProfileStatusCard(profileStatus) = "loading"

\* the donorInfo a detail response body gives
InfoOf(data) ==
  [bloodType |-> data.bloodGroup, lastDonation |-> data.lastDonation,
   nextEligible |-> data.nextEligible,
   daysUntilEligible |-> data.daysUntilEligible, isEligible |-> data.isEligible]

\* C11: in every reachable state profileStatus is one of 'loading', 'none',
\* 'pending', 'approved', 'rejected'.
C11_ProfileStatusInType ==
  profileStatus \in {"loading", "none", "pending", "approved", "rejected"}

\* C16 (as claimed): the rendered rows never exceed the records of the last
\* applied response, an empty recentDonations always renders the empty-state
\* message, and rows and the message are never rendered together.
C16_EmptyListRendersEmptyText ==
  LET view == RecentDonationsSection(loadingDonations, recentDonations) IN
  phase = "mounted" =>
    /\ (Resolved("donations") /\ Applied("donations", last.resp))
         => view.rows <= Len(last.resp.donations)
    /\ recentDonations = <<>> => view.empty
    /\ ~(view.rows > 0 /\ view.empty)

\* C16 (amended): the rendered rows never exceed the records of the last
\* applied response (none before the first), an empty recentDonations renders
\* the empty-state message whenever loadingDonations is false (the spinner
\* otherwise), and rows and the message are never rendered together.
C16_EmptyListRendersEmptyTextUnlessLoading ==
  LET view == RecentDonationsSection(loadingDonations, recentDonations) IN
  phase = "mounted" =>
    /\ (Resolved("donations") /\ Applied("donations", last.resp))
         => view.rows <= Len(last.resp.donations)
    /\ hiSeq["donations"] = 0 => view.rows = 0
    /\ view.rows <= Len(recentDonations)
    /\ (recentDonations = <<>> /\ ~loadingDonations) => view.empty
    /\ (recentDonations = <<>> /\ loadingDonations) => (view.spinner /\ ~view.empty)
    /\ ~(view.rows > 0 /\ view.empty)

\* rows are rendered for a stored list
C16_Witness ==
  /\ phase = "mounted"
  /\ RecentDonationsSection(loadingDonations, recentDonations).rows > 0
  /\ hiSeq["donations"] > 0

\* C17: the five fields of donorInfo are all at their initial values or all
\* taken from one single detail response.
C17_DonorInfoFromOneResponse ==
  \/ donorInfo = InitialDonorInfo
  \/ \E d \in DetailValues : donorInfo = InfoOf(d)

\* a second detail response has replaced the detail an earlier one stored
C17_Witness ==
  /\ Resolved("details") /\ Applied("details", last.resp)
  /\ last.req.seq < hiSeq["details"]
  /\ donorInfo = InfoOf(last.resp.data)

\* C18: the pieces are refreshed independently: a detail response is stored
\* whatever the stats requests are doing and leaves donatedCount alone, and a
\* stats response leaves donorInfo alone; so donorInfo can hold the detail of
\* one trigger while donatedCount holds the stats of the trigger before.
C18_IndependentRefresh ==
  [][/\ (ResolvedNow("details") /\ Applied("details", last'.resp))
          => (donorInfo' = InfoOf(last'.resp.data) /\ donatedCount' = donatedCount)
     /\ (ResolvedNow("stats") /\ Applied("stats", last'.resp))
          => (donatedCount' = last'.resp.donatedCount /\ donorInfo' = donorInfo)]_vars

\* donorInfo shows the detail fetched by the timer tick while the stats
\* request of that tick is outstanding and donatedCount shows the stats
\* fetched by an earlier trigger
C18_Witness ==
  /\ Resolved("details") /\ Applied("details", last.resp)
  /\ last.req.origin = "timer"
  /\ donorInfo = InfoOf(last.resp.data)
  /\ \E q \in inflight : q.kind = "stats" /\ q.origin = "timer"
  /\ hiSeq["stats"] > 0
  /\ \A q \in inflight : q.origin = "timer" => hiSeq["stats"] < q.seq
  /\ donatedCount > 0

\* C20: loadingDonations is true in every state in which a recent-donations
\* request is outstanding.
C20_LoadingWhileOutstanding ==
  (\E r \in inflight : r.kind = "donations") => loadingDonations

\* C15: the countdown badge is rendered only when donorInfo.daysUntilEligible
\* is a number greater than 0 and donorInfo.nextEligible is non-null; a null,
\* zero or negative daysUntilEligible suppresses it.
C15_CountdownOnlyWhenPositive ==
  /\ CountdownBadge(donorInfo) =>
       /\ donorInfo.daysUntilEligible # NullNum
       /\ donorInfo.daysUntilEligible[1] > 0
       /\ donorInfo.nextEligible # Null
  /\ (donorInfo.daysUntilEligible = NullNum \/ donorInfo.daysUntilEligible[1] <= 0)
       => ~CountdownBadge(donorInfo)

\* the badge is rendered for a stored detail
C15_Witness ==
  phase = "mounted" /\ CountdownBadge(donorInfo)

\* the callbacks invoked by press n: every entry of calls tagged n
CallsOf(n) == SelectSeq(alert.calls, LAMBDA c : c.press = n)

C14_OneButtonPerAction ==
  alert.shown =>
    /\ alert.props.hasButtons =>
         /\ Len(alert.rendered) = Len(alert.props.buttons)
         /\ \A i \in 1..Len(alert.rendered) : alert.rendered[i] = alert.props.buttons[i]
    /\ ~alert.props.hasButtons =>
         (Len(alert.rendered) = 1 /\ alert.rendered[1].style = "default")

\* an alert given an empty list of actions has rendered
C14_Witness ==
  alert.shown /\ alert.props.hasButtons /\ Len(alert.props.buttons) = 0

\* C19: after the logged-in user has changed, no state variable is updated
\* with the response to a request that was issued for the previous user.
C19_NoResponseOfPreviousUser ==
  [][(last' # last /\ last'.req.user # "" /\ last'.req.user # user.id)
      => UNCHANGED stateVars]_vars

\* local state holds what the server's current data gives
StatsCurrent == donatedCount = ServerResponse("stats", server).donatedCount
DetailCurrent == donorInfo = InfoOf(ServerResponse("details", server).data)
ProfileCurrent == profileStatus = ProfileStatusAfter(ServerResponse("profile", server))
DonationsCurrent == recentDonations = ServerResponse("donations", server).donations

\* C12 as stated: with a fair timer and a server that answers every request,
\* a change of the server's profile approval status, donation count, donor
\* detail or recent-donations list is eventually reflected in local state.
C12_AllFourKeptCurrent ==
  (server = "v2") ~>
     (ProfileCurrent /\ StatsCurrent /\ DetailCurrent /\ DonationsCurrent)

\* C12 amended: with a fair timer and a server that answers every request, a
\* change of the server's donation count or donor detail is eventually
\* reflected in local state and stays reflected.
C12_PolledStateKeptCurrent ==
  [](server = "v2" => <>[](StatsCurrent /\ DetailCurrent))

\* the timer has brought the changed count and detail in while the profile
\* status is still the one from before the change
C12_Witness ==
  /\ phase = "mounted"
  /\ server = "v2"
  /\ StatsCurrent /\ DetailCurrent
  /\ ~ProfileCurrent /\ ~DonationsCurrent

\* C21: while no user is logged in (user absent or without id), no trigger
\* issues a request and every remote-sourced state variable keeps its
\* initial value: profileStatus stays 'loading', loadingDonations stays true.
C21_NoUserNoRequests ==
  ~HasId(user)
    => /\ inflight = {}
       /\ nextSeq = 1
       /\ availableRequestsCount = 0
       /\ profileStatus = "loading"
       /\ profileRemarks = ""
       /\ donatedCount = 0
       /\ donorInfo = InitialDonorInfo
       /\ recentDonations = <<>>
       /\ loadingDonations = TRUE
       /\ unreadCount = 0

C23_AtMostOneInterval ==
  /\ intervals \in {0, 1}
  /\ phase = "mounted" => intervals = 1
  /\ phase = "unmounted" => intervals = 0

\* the screen has unmounted after the user changed to B
C23_Witness ==
  /\ phase = "unmounted"
  /\ user = UserB
  /\ intervals = 0

====
